---- MODULE Spec2Model ----
(***************************************************************************)
(* Open Games Launcher (src/launcher.py): the catalog store, the update    *)
(* pipeline (download + zip extraction), the launch dispatcher, and the    *)
(* owner/worker job model.                                                 *)
(*                                                                         *)
(* Strings the code inspects character by character (ids, names, paths)    *)
(* are sequences of one-character strings; strings the code only forwards  *)
(* (urls, image paths, messages) are TLA+ strings.                         *)
(***************************************************************************)
EXTENDS Integers, Sequences, FiniteSets, TLC

VARIABLES
    fs,        \* regular files: path string -> content
    dirs,      \* directories that exist (path strings)
    written,   \* log of every path created or written by _safe_extract_zip
    zf,        \* archive being extracted: sequence of entries (infolist order)
    zi,        \* index of the next entry of zf
    base,      \* dest_dir.resolve() of the running extraction, as path parts
    raised,    \* "" or the exception _safe_extract_zip / load_games raised
    pc,        \* position of the main thread: "start", "loaded", "loop", or the
               \* step of a run of one function ("extract", "roundtrip", "launch")
    games,     \* Launcher.games
    selected,  \* Launcher.selected
    status,    \* text of Launcher.status_lbl
    prog,      \* value of Launcher.prog, a fraction <<num, den>>
    news,      \* content of the Launcher.news text box
    afterq,    \* callbacks scheduled with self.after(0, ...), in arrival order
    jobs,      \* worker threads started so far: sequence of job records
    mbox,      \* text of the message box the latest button handler showed
    adds,      \* number of quick-add operations so far
    osname,    \* os.name of the platform the program runs on
    spawned    \* the latest call of a launch mechanism by launch_game

vars == <<fs, dirs, written, zf, zi, base, raised, pc, games, selected,
          status, prog, news, afterq, jobs, mbox, adds, osname, spawned>>

-----------------------------------------------------------------------------
(* Bounds of the model *)

MaxEntries == 3     \* entries per archive
MaxAdds    == 1     \* quick-add operations per run
MaxJobs    == 1     \* worker threads the owner's loop starts per run

-----------------------------------------------------------------------------
(* Characters and strings (str methods used by the code) *)

UpperChars == <<"A", "B", "G", "K", "L", "N", "S">>
LowerChars == <<"a", "b", "g", "k", "l", "n", "s">>

\* code-point order of the characters the model uses
Chars == <<" ", ".", "/", "0", "1", "2", "3", "4", "5",
           "6", "7", "8", "9", "A", "B", "G", "K", "L", "N", "S", "_",
           "a", "b", "d", "e", "g", "i", "j", "k", "l", "m", "n", "o", "p",
           "s", "t", "v", "w", "x", "z">>

Ord(c) == CHOOSE i \in 1..Len(Chars) : Chars[i] = c

LowerChar(c) ==
    IF \E i \in 1..Len(UpperChars) : UpperChars[i] = c
    THEN LowerChars[CHOOSE i \in 1..Len(UpperChars) : UpperChars[i] = c]
    ELSE c

\* str.lower()
Lower(s) == [i \in 1..Len(s) |-> LowerChar(s[i])]

\* str.replace(" ", "_")
ReplaceSpaces(s) == [i \in 1..Len(s) |-> IF s[i] = " " THEN "_" ELSE s[i]]

\* str.startswith / str.endswith
StartsWith(s, pre) == Len(pre) <= Len(s) /\ SubSeq(s, 1, Len(pre)) = pre
EndsWith(s, suf) ==
    Len(suf) <= Len(s) /\ SubSeq(s, Len(s) - Len(suf) + 1, Len(s)) = suf

\* s < t in the order of str comparison (code points, then length)
RECURSIVE LexLess(_, _)
LexLess(s, t) ==
    IF t = <<>> THEN FALSE
    ELSE IF s = <<>> THEN TRUE
    ELSE IF Head(s) = Head(t) THEN LexLess(Tail(s), Tail(t))
    ELSE Ord(Head(s)) < Ord(Head(t))

\* str(n) of a natural number
Digits == <<"0", "1", "2", "3", "4", "5", "6", "7", "8", "9">>
RECURSIVE IntStr(_)
IntStr(n) ==
    IF n < 10 THEN << Digits[n + 1] >>
    ELSE IntStr(n \div 10) \o << Digits[(n % 10) + 1] >>

-----------------------------------------------------------------------------
(* pathlib.Path *)

RECURSIVE SplitAcc(_, _, _)
SplitAcc(s, cur, acc) ==
    IF s = <<>> THEN Append(acc, cur)
    ELSE IF Head(s) = "/" THEN SplitAcc(Tail(s), <<>>, Append(acc, cur))
    ELSE SplitAcc(Tail(s), Append(cur, Head(s)), acc)

\* Path(s).parts without the root: empty and "." components are dropped
PathParts(s) ==
    SelectSeq(SplitAcc(s, <<>>, <<>>), LAMBDA c : c # <<>> /\ c # <<".">>)

\* Path(s).is_absolute()
IsAbsolute(s) == s # <<>> /\ Head(s) = "/"

\* Path.resolve() of an absolute path given by its parts: ".." removes the
\* component before it and stays at the root
RECURSIVE ResolveAcc(_, _)
ResolveAcc(parts, acc) ==
    IF parts = <<>> THEN acc
    ELSE IF Head(parts) = <<".", ".">>
         THEN ResolveAcc(Tail(parts),
                         IF acc = <<>> THEN acc ELSE SubSeq(acc, 1, Len(acc) - 1))
         ELSE ResolveAcc(Tail(parts), Append(acc, Head(parts)))

Resolve(parts) == ResolveAcc(parts, <<>>)

\* str() of an absolute path given by its parts
RECURSIVE AbsStr(_)
AbsStr(parts) ==
    IF parts = <<>> THEN <<"/">>
    ELSE IF Len(parts) = 1 THEN <<"/">> \o parts[1]
    ELSE AbsStr(SubSeq(parts, 1, Len(parts) - 1)) \o <<"/">> \o parts[Len(parts)]

\* the proper ancestors of a path and the path itself, root first
Ancestors(parts) == { SubSeq(parts, 1, k) : k \in 0..(Len(parts) - 1) }

\* p is q or lies below q, component by component
IsWithin(p, q) == Len(q) <= Len(p) /\ SubSeq(p, 1, Len(q)) = q

-----------------------------------------------------------------------------
(* _safe_extract_zip *)

\* ZipInfo.is_dir()
InfoIsDir(info) == EndsWith(info.filename, <<"/">>)

\* F applied to the values of its arguments (TLC would otherwise evaluate an
\* argument expression again at each of its uses)
Eager1(F(_), a) == CHOOSE r \in { F(x) : x \in {a} } : TRUE
Eager2(F(_, _), a, b) == CHOOSE r \in { F(x, y) : x \in {a}, y \in {b} } : TRUE
Eager3(F(_, _, _), a, b, c) ==
    CHOOSE r \in { F(x, y, z) : x \in {a}, y \in {b}, z \in {c} } : TRUE

\* Path.mkdir(parents=True, exist_ok=True) on a file system state
\* st = [fs, dirs, written, raised]; fails where a regular file is in the way
Mkdir(st0, parts0) ==
    Eager2(LAMBDA st, parts :
             LET chain   == Ancestors(parts) \cup {parts}
                 missing == { AbsStr(a) : a \in { c \in chain : AbsStr(c) \notin st.dirs } }
             IN  IF \E c \in chain : AbsStr(c) \in DOMAIN st.fs
                 THEN [st EXCEPT !.raised = "FileExistsError"]
                 ELSE [st EXCEPT !.dirs = @ \cup missing, !.written = @ \cup missing],
           st0, parts0)

\* open(out, "wb") and write: fails on a directory
WriteFile(st0, path0, content0) ==
    Eager3(LAMBDA st, path, content :
             IF path \in st.dirs
             THEN [st EXCEPT !.raised = "IsADirectoryError"]
             ELSE [st EXCEPT !.fs = [p \in DOMAIN @ \cup {path} |->
                                        IF p = path THEN content ELSE @[p]],
                             !.written = @ \cup {path}],
           st0, path0, content0)

\* the containment test of the loop body, as the code writes it
PathIsInside(out, b) == StartsWith(AbsStr(out), AbsStr(b))

\* the body of the for loop, once the entry's resolved path is known
ExtractTo(st, out, info) ==
    IF InfoIsDir(info)
    THEN Mkdir(st, out)
    ELSE LET m == Mkdir(st, SubSeq(out, 1, Len(out) - 1))
         IN  IF m.raised # "" THEN m
             ELSE WriteFile(m, AbsStr(out), [kind |-> "bytes", data |-> info.data])

\* an iteration that tests the resolved path after writing to it
ExtractEntry_CheckAfterWrite(st0, b0, info0) ==
    Eager3(LAMBDA st, b, info :
             IF IsAbsolute(info.filename)
             THEN [st EXCEPT !.raised = "Unsafe absolute path in zip"]
             ELSE LET out == Resolve(b \o PathParts(info.filename))
                  IN  IF ~PathIsInside(out, b)
                      THEN [Eager3(ExtractTo, st, out, info) EXCEPT
                               !.raised = "Unsafe path traversal in zip"]
                      ELSE Eager3(ExtractTo, st, out, info),
           st0, b0, info0)

\* one iteration of the for loop over zf.infolist()
ExtractEntry(st0, b0, info0) ==
    Eager3(LAMBDA st, b, info :
             IF IsAbsolute(info.filename)
             THEN [st EXCEPT !.raised = "Unsafe absolute path in zip"]
             ELSE LET out == Resolve(b \o PathParts(info.filename))
                  IN  IF ~PathIsInside(out, b)
                      THEN [st EXCEPT !.raised = "Unsafe path traversal in zip"]
                      ELSE Eager3(ExtractTo, st, out, info),
           st0, b0, info0)

\* the whole loop: stops at the first entry that raises
RECURSIVE _safe_extract_zip(_, _, _)
_safe_extract_zip(st0, b0, infos0) ==
    Eager3(LAMBDA st, b, infos :
             IF infos = <<>> \/ st.raised # "" THEN st
             ELSE _safe_extract_zip(ExtractEntry(st, b, Head(infos)), b, Tail(infos)),
           st0, b0, infos0)

-----------------------------------------------------------------------------
(* ExtractSpec: _safe_extract_zip run on every small archive *)

S_d   == <<"d">>
Bases == { <<S_d>> }                         \* dest_dir = "/d"

EntryNames ==
    { <<"a", "/", "b">>,                     \* a/b       file below dest
      <<"a", "/">>,                          \* a/        directory entry
      <<".", ".", "/", "d", "x", "/", "e">>, \* ../dx/e   sibling sharing the prefix
      <<".", ".", "/", ".", ".", "/", "e">>, \* ../../e   above dest
      <<"/", "e">>,                          \* /e        absolute
      <<".", ".", "/", "d", "/", "i">> }     \* ../d/i    leaves and re-enters dest

Entries == { [filename |-> n, data |-> n] : n \in EntryNames }

SeqsUpTo(set, n) == UNION { [1..k -> set] : k \in 0..n }

Archives == SeqsUpTo(Entries, MaxEntries)

EmptyFs == [p \in {} |-> [kind |-> "bytes"]]

\* no launch mechanism has been called
NoLaunch == [kind |-> "none"]

LaunchIdle == osname = "posix" /\ spawned = NoLaunch

ProgramIdle ==
    /\ games = <<>> /\ selected = 0
    /\ status = [msg |-> "", n |-> 0]
    /\ prog = <<0, 1>>
    /\ news = [msg |-> "", job |-> 0]
    /\ afterq = <<>> /\ jobs = <<>>
    /\ mbox = "" /\ adds = 0
    /\ LaunchIdle

ExtractInit ==
    /\ pc = "extract"
    /\ base \in Bases
    /\ zf \in Archives
    /\ zi = 1
    /\ raised = ""
    /\ fs = EmptyFs
    /\ dirs \in { {<<"/">>}, {<<"/">>, AbsStr(base)} }
    /\ written = {}
    /\ ProgramIdle

\* the next iteration of the loop at src/launcher.py:51
ExtractStep ==
    /\ pc = "extract" /\ raised = "" /\ zi <= Len(zf)
    /\ \E st \in { ExtractEntry([fs |-> fs, dirs |-> dirs, written |-> written,
                                  raised |-> ""], base, zf[zi]) } :
          /\ fs' = st.fs /\ dirs' = st.dirs /\ written' = st.written
          /\ raised' = st.raised
    /\ zi' = zi + 1
    /\ UNCHANGED <<zf, base, pc, games, selected, status, prog, news, afterq, jobs,
                   mbox, adds, osname, spawned>>

ExtractNext == ExtractStep

ExtractSpec == ExtractInit /\ [][ExtractNext]_vars

\* C1: every path _safe_extract_zip creates or writes is dest_dir itself or a
\* descendant of dest_dir's resolved path, component by component; an entry
\* that resolves elsewhere raises before anything is written for it.
C1_WritesStayInsideDest ==
    pc = "extract" => \A p \in written : IsWithin(PathParts(p), base)

\* what _safe_extract_zip raises for an entry it rejects
Rejections == {"Unsafe absolute path in zip", "Unsafe path traversal in zip"}

\* C15: extraction takes the entries in archive order and stops at the first
\* rejected one: the rejected entry creates and writes nothing, no entry after
\* it is processed, the error reaches the caller, and what earlier entries
\* produced stays in place.
C15_StopsAtFirstRejected ==
    [][pc = "extract" =>
         /\ raised = ""
         /\ zi' = zi + 1
         /\ written \subseteq written' /\ dirs \subseteq dirs'
         /\ \A p \in DOMAIN fs : p \in DOMAIN fs' /\ fs'[p].kind = fs[p].kind
         /\ raised' \in Rejections =>
               /\ fs' = fs /\ dirs' = dirs /\ written' = written
               /\ \/ IsAbsolute(zf[zi].filename)
                  \/ ~IsWithin(Resolve(base \o PathParts(zf[zi].filename)), base)
      ]_vars

\* the second of three entries was rejected: the file of the first is in
\* place and the third, a valid one, was not extracted
C15_Witness ==
    /\ pc = "extract" /\ Len(zf) = 3 /\ zi = 3
    /\ raised = "Unsafe path traversal in zip"
    /\ <<"/", "d", "/", "a", "/", "b">> \in DOMAIN fs
    /\ zf[3].filename = <<".", ".", "/", "d", "/", "i">>
    /\ <<"/", "d", "/", "i">> \notin DOMAIN fs

-----------------------------------------------------------------------------
(* More of pathlib.Path, for relative paths and names *)

\* str() of a relative path given by its parts
RECURSIVE RelStr(_)
RelStr(parts) ==
    IF parts = <<>> THEN <<".">>
    ELSE IF Len(parts) = 1 THEN parts[1]
    ELSE RelStr(SubSeq(parts, 1, Len(parts) - 1)) \o <<"/">> \o parts[Len(parts)]

\* str(Path(s))
PathStr(s) == IF IsAbsolute(s) THEN AbsStr(PathParts(s)) ELSE RelStr(PathParts(s))

\* str(Path(s).parent)
ParentStr(s) ==
    LET parts == PathParts(s)
        front == IF parts = <<>> THEN <<>> ELSE SubSeq(parts, 1, Len(parts) - 1)
    IN  IF IsAbsolute(s) THEN AbsStr(front) ELSE RelStr(front)

\* Path(s).name
PathName(s) ==
    LET parts == PathParts(s) IN IF parts = <<>> THEN <<>> ELSE parts[Len(parts)]

\* Path(s).stem: the name up to its last dot, unless that dot is the first
\* or the last character of the name
PathStem(s) ==
    LET name == PathName(s)
        dots == { i \in 1..Len(name) : name[i] = "." }
    IN  IF dots = {} THEN name
        ELSE LET i == CHOOSE d \in dots : \A e \in dots : e <= d
             IN  IF 1 < i /\ i < Len(name) THEN SubSeq(name, 1, i - 1) ELSE name

\* Path(s).mkdir(parents=True, exist_ok=True): the directories afterwards
MkdirParents(folders, s) ==
    LET parts == PathParts(s)
        lo    == IF IsAbsolute(s) THEN 0 ELSE 1
    IN  folders \cup { IF IsAbsolute(s) THEN AbsStr(SubSeq(parts, 1, k))
                                        ELSE RelStr(SubSeq(parts, 1, k)) :
                       k \in lo..Len(parts) }

\* Path(s).exists()
PathExists(files, folders, s) == PathStr(s) \in DOMAIN files \/ PathStr(s) \in folders

-----------------------------------------------------------------------------
(* dict *)

EmptyDict == <<>>

Has(d, k) == k \in DOMAIN d

\* d[k] = v
DictSet(d, k, v) == [x \in DOMAIN d \cup {k} |-> IF x = k THEN v ELSE d[x]]

\* {k: v for k, v in d.items() if k != key}
DictWithout(d, key) == [x \in DOMAIN d \ {key} |-> d[x]]

\* not d.get(k), for the string-valued keys: absent or empty
Falsy(d, k) == ~Has(d, k) \/ d[k] = <<>>

-----------------------------------------------------------------------------
(* Data IO: GAMES_DIR, SCHEMA_DEFAULT, _read_game_file, _write_game_file,
   load_games *)

GAMES_DIR  == <<"g", "a", "m", "e", "s">>
JsonSuffix == <<".", "j", "s", "o", "n">>
Cwd        == <<"/", "w">>                       \* Path.cwd()

S_sample     == <<"s", "a", "m", "p", "l", "e">>
S_SampleGame == <<"S", "a", "m", "p", "l", "e", " ", "G", "a", "m", "e">>
S_game       == <<"g", "a", "m", "e">>

SCHEMA_DEFAULT ==
    [id        |-> S_sample,
     name      |-> S_SampleGame,
     game_path |-> Cwd \o <<"/", "S", "a", "m", "p", "l", "e", "G", "a", "m", "e",
                            ".", "e", "x", "e">>,
     work_dir  |-> Cwd,
     args      |-> <<>>,
     news_url  |-> "https://raw.githubusercontent.com/github/markup/master/README.md",
     icon      |-> "assets/empty_icon.png",
     cover     |-> "assets/empty_background.jpg",
     update    |-> [url        |-> "",
                    dest       |-> Cwd \o <<"/", "s", "a", "m", "p", "l", "e", "_",
                                            "u", "p", "d", "a", "t", "e",
                                            ".", "z", "i", "p">>,
                    extract_to |-> Cwd]]

\* GAMES_DIR / f"{gid}.json"
UnitPath(gid) == PathStr(GAMES_DIR \o <<"/">> \o gid \o JsonSuffix)

\* json.loads(p.read_text()): the parsed object, or a failure for a file that
\* is not JSON; a JSON value that is not an object fails at data["id"] = ...
\* or at data.setdefault
ParsesToObject(content) == content.kind = "json"

\* if "id" not in data: data["id"] = p.stem
WithId(data, p) == IF ~Has(data, "id") THEN DictSet(data, "id", PathStem(p)) ELSE data

\* data.setdefault("name", data["id"])
WithName(data) == IF ~Has(data, "name") THEN DictSet(data, "name", data["id"]) ELSE data

\* gp and gp.exists()
GamePathExists(files, folders, data) ==
    ~Falsy(data, "game_path") /\ PathExists(files, folders, data["game_path"])

\* if not data.get("work_dir"): data["work_dir"] = str(gp.parent ...) or cwd
WithWorkDir(files, folders, data) ==
    IF ~Falsy(data, "work_dir") THEN data
    ELSE DictSet(data, "work_dir",
                 IF GamePathExists(files, folders, data)
                 THEN ParentStr(data["game_path"]) ELSE Cwd)

\* _read_game_file with a failure that is not turned into {}: the unit still
\* yields a record
_read_game_file_NoSkip(files, folders, p) ==
    DictSet(WithId(IF ParsesToObject(files[p]) THEN files[p].data ELSE EmptyDict, p),
            "meta_path", PathStr(p))

_read_game_file(files, folders, p) ==
    IF ~ParsesToObject(files[p]) THEN EmptyDict
    ELSE DictSet(WithWorkDir(files, folders, WithName(WithId(files[p].data, p))),
                 "meta_path", PathStr(p))

\* game.get("id") or game.get("name") or "game"
IdOrNameOrGame(game) ==
    IF ~Falsy(game, "id") THEN game["id"]
    ELSE IF ~Falsy(game, "name") THEN game["name"]
    ELSE S_game

\* the file _write_game_file writes to
WriteTarget(game) ==
    IF ~Falsy(game, "meta_path") THEN PathStr(game["meta_path"])
    ELSE UnitPath(ReplaceSpaces(Lower(IdOrNameOrGame(game))))

\* a serialisation that loses the nested update block
JsonFile_DropsUpdate(game) ==
    [kind |-> "json", data |-> DictWithout(DictWithout(game, "meta_path"), "update")]

\* json.dumps(to_save) as written to the file
JsonFile(game) == [kind |-> "json", data |-> DictWithout(game, "meta_path")]

\* _write_game_file: the files and directories after the write, and the
\* record with its meta_path set
WriteGameTo(files, folders, game, p) ==
    [files   |-> [q \in DOMAIN files \cup {p} |->
                     IF q = p THEN JsonFile(game) ELSE files[q]],
     folders |-> MkdirParents(folders, ParentStr(p)),
     game    |-> DictSet(game, "meta_path", p),
     path    |-> p]

_write_game_file(files, folders, game) ==
    WriteGameTo(files, folders, game, WriteTarget(game))

\* GAMES_DIR.glob("*.json"): the files directly inside GAMES_DIR whose name
\* ends in .json
Glob(files) ==
    { p \in DOMAIN files :
        /\ StartsWith(p, GAMES_DIR \o <<"/">>)
        /\ EndsWith(p, JsonSuffix)
        /\ Len(PathParts(p)) = 2 }

\* sorted(paths)
RECURSIVE Sorted(_)
Sorted(paths) ==
    IF paths = {} THEN <<>>
    ELSE Eager1(LAMBDA least : <<least>> \o Sorted(paths \ {least}),
                CHOOSE p \in paths : \A q \in paths \ {p} : LexLess(p, q))

\* the for loop of load_games over the sorted units
RECURSIVE ReadAll(_, _, _)
ReadAll(files, folders, paths) ==
    IF paths = <<>> THEN <<>>
    ELSE Eager1(LAMBDA g : IF DOMAIN g # {} THEN <<g>> ELSE <<>>,
                _read_game_file(files, folders, Head(paths)))
         \o ReadAll(files, folders, Tail(paths))

\* the records load_games reads and the directories after GAMES_DIR.mkdir
ReadUnits(files, made) ==
    [games |-> ReadAll(files, made, Sorted(Glob(files))),
     files |-> files, folders |-> made]

\* the seeding of an empty catalog with the sample record
Seed(files, made) ==
    Eager1(LAMBDA w : [games |-> <<w.game>>, files |-> w.files, folders |-> w.folders],
           _write_game_file(files, made,
                            [SCHEMA_DEFAULT EXCEPT !.id = S_sample,
                                                   !.name = S_SampleGame]))

\* load_games without the seeding of the sample record
load_games_NoSeed(files, folders) ==
    ReadUnits(files, MkdirParents(folders, GAMES_DIR))

\* load_games: the list returned, and the files and directories afterwards
load_games(files, folders) ==
    Eager1(LAMBDA r : IF r.games # <<>> THEN r ELSE Seed(r.files, r.folders),
           ReadUnits(files, MkdirParents(folders, GAMES_DIR)))

-----------------------------------------------------------------------------
(* Launching: _is_windows_shortcut, launch_game *)

\* Path(s).suffix: the name from its last dot on, unless that dot is the
\* first or the last character of the name
PathSuffix(s) ==
    LET name == PathName(s)
        dots == { i \in 1..Len(name) : name[i] = "." }
    IN  IF dots = {} THEN <<>>
        ELSE LET i == CHOOSE d \in dots : \A e \in dots : e <= d
             IN  IF 1 < i /\ i < Len(name) THEN SubSeq(name, i, Len(name)) ELSE <<>>

ShortcutSuffixes ==
    { <<".", "l", "n", "k">>, <<".", "u", "r", "l">>,
      <<".", "b", "a", "t">>, <<".", "c", "m", "d">> }

\* the test without .lower()
_is_windows_shortcut_CaseSensitive(p) == PathSuffix(p) \in ShortcutSuffixes

_is_windows_shortcut(p) == Lower(PathSuffix(p)) \in ShortcutSuffixes

\* the prefixes of game_path.startswith((...)) in launch_game
Schemes ==
    { <<"h", "t", "t", "p", ":", "/", "/">>,
      <<"h", "t", "t", "p", "s", ":", "/", "/">>,
      <<"s", "t", "e", "a", "m", ":", "/", "/">>,
      <<"e", "p", "i", "c", ":", "/", "/">> }

StartsWithAny(s, prefixes) == \E pre \in prefixes : StartsWith(s, pre)

\* g.get(k): a value that may be None is <<>> for None and <<v>> for v
Get(d, k) == IF Has(d, k) THEN << d[k] >> ELSE <<>>

\* x or default, for a value that may be None
OrElse(x, default) == IF x = <<>> \/ x[1] = <<>> THEN default ELSE x[1]

\* the mechanism launch_game chooses, with what it passes to it
LaunchCall(os, game_path, work_dir, args) ==
    IF StartsWithAny(game_path, Schemes)
    THEN [kind |-> "protocol", target |-> game_path, cmd |-> <<>>, cwd |-> <<>>]
    ELSE IF os = "nt" /\ _is_windows_shortcut(game_path) /\ OrElse(args, <<>>) = <<>>
    THEN [kind |-> "shell", target |-> PathStr(game_path), cmd |-> <<>>, cwd |-> <<>>]
    ELSE [kind   |-> "direct", target |-> PathStr(game_path),
          cmd    |-> << PathStr(game_path) >> \o OrElse(args, <<>>),
          cwd    |-> OrElse(work_dir, ParentStr(game_path))]

\* what a launch mechanism can do: webbrowser.open returns True, returns
\* False (no browser could be started) or raises; os.startfile and
\* subprocess.Popen return or raise
Outcomes(kind) == IF kind = "protocol" THEN {"ok", "false", "raise"} ELSE {"ok", "raise"}

SuccessMessage(kind) ==
    IF kind = "protocol" THEN "Opened URL/protocol"
    ELSE IF kind = "shell" THEN "Launched via Shell"
    ELSE "Launched"

\* the return value of launch_game and the call it made; Popen leaves the
\* child running
LaunchResult(call, outcome) ==
    [ok   |-> outcome # "raise",
     msg  |-> IF outcome = "raise" THEN "error" ELSE SuccessMessage(call.kind),
     call |-> [kind |-> call.kind, target |-> call.target, cmd |-> call.cmd,
               cwd |-> call.cwd, outcome |-> outcome,
               child |-> IF call.kind = "direct" /\ outcome = "ok"
                         THEN "running" ELSE "none"]]

launch_game(os, game_path, work_dir, args, outcome) ==
    LaunchResult(LaunchCall(os, game_path, work_dir, args), outcome)

-----------------------------------------------------------------------------
(* Launcher: the owner's handlers, as functions of the owner's state
   u = [games, selected, status, prog, news, jobs, mbox] *)

Msg(m, k) == [msg |-> m, n |-> k]

\* a thread started by threading.Thread(target=job).start()
NewsJob(url, idx) ==
    [type |-> "news", pc |-> "run", game |-> idx, url |-> url,
     dest |-> <<>>, extract_to |-> <<>>,
     resp |-> 0, ci |-> 0, downloaded |-> 0, events |-> <<>>]

DownloadJob(url, dest, extract_to, idx) ==
    [type |-> "download", pc |-> "get", game |-> idx, url |-> url,
     dest |-> dest, extract_to |-> extract_to,
     resp |-> 0, ci |-> 0, downloaded |-> 0, events |-> <<>>]

\* Launcher.set_status
set_status(u, txt) == [u EXCEPT !.status = txt]

\* Launcher.current: the selected record (the code's None is never returned
\* once the catalog is non-empty)
current(u) == u.games[u.selected + 1]

\* Launcher.load_news: without a news_url only the status changes; otherwise
\* a worker thread is started
load_news(u) ==
    IF u.games = <<>> THEN u
    ELSE LET g == current(u)
         IN  IF ~Has(g, "news_url") \/ g["news_url"] = ""
             THEN set_status(u, Msg("No news URL.", 0))
             ELSE [set_status(u, Msg("Fetching news", 0)) EXCEPT
                      !.prog = <<0, 1>>,
                      !.jobs = Append(@, NewsJob(g["news_url"], u.selected))]

\* Launcher.on_select
on_select(u, idx) ==
    load_news(set_status([u EXCEPT !.selected = idx], Msg("Selected", idx)))

\* Launcher.refresh_game_list(select_index); select_index = -1 stands for None
refresh_game_list(u, select_index) ==
    IF u.games = <<>> THEN u
    ELSE on_select(u, IF select_index # -1 THEN select_index
                      ELSE IF u.selected < Len(u.games) - 1 THEN u.selected
                      ELSE Len(u.games) - 1)

\* Launcher.__init__ from self.games = games on
Launcher_init(gs) ==
    LET u0 == [games |-> gs, selected |-> 0, status |-> Msg("", 0),
               prog |-> <<0, 1>>, news |-> [msg |-> "Loading news", job |-> 0],
               jobs |-> <<>>, mbox |-> ""]
        u1 == refresh_game_list(u0, 0)
    IN  IF u1.games # <<>> THEN load_news(u1) ELSE u1

\* quick_add_game without the while loop: the base id is used as it is
FreeId_NoLoop(files, folders, base_id, gid, n) == gid

\* the while loop of quick_add_game: the first of base_id, base_id_1,
\* base_id_2, ... that names no existing unit
RECURSIVE FreeId(_, _, _, _, _)
FreeId(files, folders, base_id, gid, n) ==
    IF PathExists(files, folders, UnitPath(gid))
    THEN FreeId(files, folders, base_id, base_id \o <<"_">> \o IntStr(n), n + 1)
    ELSE gid

\* the id quick_add_game gives the record for the chosen path
QuickAddId(files, folders, path) ==
    LET base_id == ReplaceSpaces(Lower(PathStem(path)))
    IN  FreeId(files, folders, base_id, base_id, 1)

\* the record quick_add_game builds for the chosen path
NewGame(files, folders, path) ==
    [id        |-> QuickAddId(files, folders, path),
     name      |-> PathStem(path),
     game_path |-> PathStr(path),
     work_dir  |-> ParentStr(path),
     args      |-> <<>>,
     news_url  |-> "",
     icon      |-> "assets/empty_icon.png",
     cover     |-> "assets/empty_background.jpg",
     update    |-> [url |-> "", dest |-> <<>>, extract_to |-> ParentStr(path)]]

\* quick_add_game with the list replaced by the new record
quick_add_game_Replace(u, files, folders, path) ==
    Eager1(LAMBDA w :
             [u |-> refresh_game_list(
                        set_status([u EXCEPT !.games = << w.game >>],
                                   Msg("Added", Len(u.games))),
                        0),
              files |-> w.files, folders |-> w.folders],
           _write_game_file(files, folders, NewGame(files, folders, path)))

\* Launcher.quick_add_game after the dialog returned a non-empty path: the
\* owner's state, files and directories afterwards
quick_add_game(u, files, folders, path) ==
    Eager1(LAMBDA w :
             [u |-> refresh_game_list(
                        set_status([u EXCEPT !.games = Append(@, w.game)],
                                   Msg("Added", Len(u.games))),
                        Len(u.games)),
              files |-> w.files, folders |-> w.folders],
           _write_game_file(files, folders, NewGame(files, folders, path)))

\* up.get(k) is falsy: the update block, the key, or its value is missing
UpdateFalsy(g, k, empty) ==
    ~Has(g, "update") \/ ~Has(g["update"], k) \/ g["update"][k] = empty

\* up.get("extract_to"); the code's None is passed on as an empty value
UpdateExtractTo(g) ==
    IF UpdateFalsy(g, "extract_to", <<>>) THEN <<>> ELSE g["update"]["extract_to"]

\* Launcher.download with a test of url alone
download_UrlOnly(u) ==
    IF u.games = <<>> THEN u
    ELSE LET g == current(u)
         IN  IF UpdateFalsy(g, "url", "")
             THEN [u EXCEPT !.mbox = "Update block missing 'url' or 'dest'."]
             ELSE [set_status([u EXCEPT !.prog = <<0, 1>>], Msg("Downloading", 0))
                   EXCEPT !.jobs = Append(@, DownloadJob(g["update"]["url"],
                                                          IF UpdateFalsy(g, "dest", <<>>)
                                                          THEN <<>> ELSE g["update"]["dest"],
                                                          UpdateExtractTo(g),
                                                          u.selected))]

\* Launcher.download: a message box when url or dest is missing, otherwise a
\* worker thread is started
download(u) ==
    IF u.games = <<>> THEN u
    ELSE LET g == current(u)
         IN  IF UpdateFalsy(g, "url", "") \/ UpdateFalsy(g, "dest", <<>>)
             THEN [u EXCEPT !.mbox = "Update block missing 'url' or 'dest'."]
             ELSE [set_status([u EXCEPT !.prog = <<0, 1>>], Msg("Downloading", 0))
                   EXCEPT !.jobs = Append(@, DownloadJob(g["update"]["url"],
                                                          g["update"]["dest"],
                                                          UpdateExtractTo(g),
                                                          u.selected))]

\* the prefixes of exe.startswith((...)) in play
PlayPrefixes ==
    { <<"h", "t", "t", "p">>,
      <<"s", "t", "e", "a", "m", ":", "/", "/">>,
      <<"e", "p", "i", "c", ":", "/", "/">> }

\* not exe or (not exe.startswith(...) and not Path(exe).exists())
TargetMissing(files, folders, g) ==
    \/ Falsy(g, "game_path")
    \/ /\ ~StartsWithAny(g["game_path"], PlayPrefixes)
       /\ ~PathExists(files, folders, g["game_path"])

\* ("OK" if ok else "FAIL") + msg, as play shows it
LaunchStatus(r) ==
    Msg(IF ~r.ok THEN "FAIL - error"
        ELSE IF r.msg = "Opened URL/protocol" THEN "OK - Opened URL/protocol"
        ELSE IF r.msg = "Launched via Shell" THEN "OK - Launched via Shell"
        ELSE "OK - Launched", 0)

\* Launcher.play: the owner's state and the latest launch call afterwards,
\* and whether launch_game was called
play(u, sp, files, folders, os, outcome) ==
    IF u.games = <<>> THEN [u |-> u, spawned |-> sp, launched |-> FALSE]
    ELSE IF TargetMissing(files, folders, current(u))
    THEN [u |-> [u EXCEPT !.mbox = "game_path not found. Use + to add or edit JSON."],
          spawned |-> sp, launched |-> FALSE]
    ELSE Eager1(LAMBDA r : [u |-> set_status(u, LaunchStatus(r)), spawned |-> r.call,
                            launched |-> TRUE],
                launch_game(os, current(u)["game_path"], Get(current(u), "work_dir"),
                            Get(current(u), "args"), outcome))

-----------------------------------------------------------------------------
(* The program: main() and the owner's event loop *)

Owner == [games |-> games, selected |-> selected, status |-> status,
          prog |-> prog, news |-> news, jobs |-> jobs, mbox |-> mbox]

\* a button handler starts with no message box open: _safe_mb is modal and
\* the box of an earlier handler was closed before that handler returned
Handler == [Owner EXCEPT !.mbox = ""]

SetOwner(u) ==
    /\ games' = u.games /\ selected' = u.selected /\ status' = u.status
    /\ prog' = u.prog /\ news' = u.news /\ jobs' = u.jobs /\ mbox' = u.mbox

\* the paths the file dialog can return
AddPaths ==
    { <<"/", "x", "/", "A", ".", "e", "x", "e">>,        \* /x/A.exe
      <<"/", "x", "/", "a", " ", "1">>,                  \* "/x/a 1"
      <<"/", "x", "/", "B", ".", "e", "x", "e">> }       \* /x/B.exe

\* load_games() at src/launcher.py:475
LoadGames ==
    /\ pc = "start"
    /\ \E r \in { load_games(fs, dirs) } :
          /\ games' = r.games /\ fs' = r.files /\ dirs' = r.folders
    /\ pc' = "loaded"
    /\ UNCHANGED <<written, zf, zi, base, raised, selected, status, prog, news,
                   afterq, jobs, mbox, adds, osname, spawned>>

\* Launcher(games) at src/launcher.py:475
LauncherInit ==
    /\ pc = "loaded"
    /\ SetOwner(Launcher_init(games))
    /\ pc' = "loop"
    /\ UNCHANGED <<fs, dirs, written, zf, zi, base, raised, afterq, adds, osname, spawned>>

\* the "+" button
QuickAdd(path) ==
    /\ pc = "loop" /\ adds < MaxAdds
    /\ \E r \in { quick_add_game(Handler, fs, dirs, path) } :
          /\ SetOwner(r.u) /\ fs' = r.files /\ dirs' = r.folders
    /\ adds' = adds + 1
    /\ UNCHANGED <<written, zf, zi, base, raised, pc, afterq, osname, spawned>>

\* the "+" button when the dialog is cancelled (src/launcher.py:406)
QuickAddCancelled ==
    /\ pc = "loop"
    /\ mbox' = ""
    /\ UNCHANGED <<fs, dirs, written, zf, zi, base, raised, pc, games, selected,
                   status, prog, news, afterq, jobs, adds, osname, spawned>>

\* the "Play" button, the launch mechanism behaving in one of its ways
Play(outcome) ==
    /\ pc = "loop"
    /\ \E r \in { play(Handler, spawned, fs, dirs, osname, outcome) } :
          /\ outcome \in (IF r.launched THEN Outcomes(r.spawned.kind) ELSE {"ok"})
          /\ SetOwner(r.u) /\ spawned' = r.spawned
    /\ UNCHANGED <<fs, dirs, written, zf, zi, base, raised, pc, afterq, adds, osname>>

\* the child started by subprocess.Popen exits; nothing waits for it
ChildExit ==
    /\ pc \in {"loop", "launched"}
    /\ spawned.kind = "direct" /\ spawned.child = "running"
    /\ spawned' = [spawned EXCEPT !.child = "exited"]
    /\ UNCHANGED <<fs, dirs, written, zf, zi, base, raised, pc, games, selected,
                   status, prog, news, afterq, jobs, mbox, adds, osname>>

-----------------------------------------------------------------------------
(* CatalogSpec: load_games on every small catalog directory, then quick-adds *)

S_x     == <<"/", "x">>
S_Aexe  == <<"/", "x", "/", "A", ".", "e", "x", "e">>
S_uzip  == <<"/", "w", "/", "u", ".", "z", "i", "p">>

\* file contents: not JSON, JSON but not an object, and JSON objects
Bad    == [kind |-> "bad"]
NonObj == [kind |-> "nonobj"]
Rec0   == [kind |-> "json", data |-> EmptyDict]                    \* {}
RecA   == [kind |-> "json",
           data |-> [id |-> <<"a">>, name |-> <<"A">>, game_path |-> S_Aexe,
                     work_dir |-> <<>>, args |-> <<>>, news_url |-> "news-a",
                     update |-> [url |-> "url-a", dest |-> S_uzip,
                                 extract_to |-> <<"/", "d">>]]]
RecB   == [kind |-> "json",
           data |-> [id |-> <<"b">>, name |-> <<"B">>, work_dir |-> S_x,
                     news_url |-> "news-b",
                     update |-> [url |-> "url-b", dest |-> S_uzip,
                                 extract_to |-> <<>>]]]
RecU   == [kind |-> "json",
           data |-> [id |-> <<"a">>, name |-> <<"A">>, work_dir |-> S_x,
                     news_url |-> "",
                     update |-> [url |-> "url-a", dest |-> S_uzip,
                                 extract_to |-> <<"/", "d">>]]]
RecV   == [kind |-> "json",
           data |-> [id |-> <<"b">>, name |-> <<"B">>, work_dir |-> S_x,
                     update |-> [url |-> "url-b", dest |-> S_uzip,
                                 extract_to |-> <<>>]]]
RecNoId == [kind |-> "json",
            data |-> [id |-> <<>>, name |-> <<"g">>, news_url |-> ""]]  \* "id": ""

UnitContents == {Bad, NonObj, Rec0, RecA, RecB, RecNoId}

Units == { UnitPath(<<"a">>), UnitPath(<<"a", "_", "1">>), UnitPath(<<"b">>) }

\* a file of the directory that is not a unit
NotesFile == GAMES_DIR \o <<"/", "a", ".", "t", "x", "t">>

CatalogDirs ==
    UNION { [D -> UnitContents] : D \in SUBSET Units }
    \cup UNION { [D \cup {NotesFile} -> {Bad}] : D \in SUBSET Units }

ExtractIdle ==
    /\ zf = <<>> /\ zi = 1 /\ base = <<>> /\ raised = "" /\ written = {}

CatalogInit ==
    /\ pc = "start"
    /\ fs \in CatalogDirs
    /\ dirs = {<<"/">>}
    /\ ExtractIdle
    /\ ProgramIdle

CatalogNext ==
    \/ LoadGames
    \/ LauncherInit
    \/ \E path \in AddPaths : QuickAdd(path)
    \/ QuickAddCancelled

CatalogSpec == CatalogInit /\ [][CatalogNext]_vars

\* the units of the directory that hold a record: a JSON object
ValidUnits(files) == { p \in Glob(files) : files[p].kind = "json" }

Loaded == pc \in {"loaded", "loop"}

\* C2: in every state of the in-memory catalog, after load and after any
\* quick-adds, every record's id is non-empty and no two records share an id.
C2_IdsNonEmptyAndUnique ==
    Loaded =>
      /\ \A i \in 1..Len(games) : games[i]["id"] # <<>>
      /\ \A i, j \in 1..Len(games) : i # j => games[i]["id"] # games[j]["id"]

\* C6: load of a directory with N >= 1 valid units and any invalid ones
\* returns exactly one record per valid unit, in lexicographic order of the
\* units' names, and does not raise.
C6_LoadReturnsValidUnits ==
    [][(pc = "start" /\ pc' = "loaded" /\ ValidUnits(fs) # {}) =>
         /\ Len(games') = Cardinality(ValidUnits(fs))
         /\ { games'[i]["meta_path"] : i \in 1..Len(games') } = ValidUnits(fs)
         /\ \A i, j \in 1..Len(games') :
               i < j => LexLess(games'[i]["meta_path"], games'[j]["meta_path"])
         /\ raised' = ""]_vars

C6_Witness ==
    /\ pc = "loaded" /\ Len(games) = 2
    /\ \E p \in Glob(fs) : fs[p].kind # "json"

\* C7: load of a directory with no valid unit returns exactly one record, the
\* placeholder, which is then a unit of the directory named by its meta_path;
\* the catalog is never empty after load.
C7_PlaceholderPersisted ==
    /\ [][(pc = "start" /\ pc' = "loaded" /\ ValidUnits(fs) = {}) =>
            /\ Len(games') = 1
            /\ games'[1]["id"] = S_sample
            /\ games'[1]["meta_path"] \in Glob(fs')
            /\ fs'[games'[1]["meta_path"]].kind = "json"
            /\ fs'[games'[1]["meta_path"]].data = DictWithout(games'[1], "meta_path")
         ]_vars
    /\ [](Loaded => games # <<>>)

C7_Witness ==
    /\ pc = "loaded" /\ Len(games) = 1
    /\ games[1]["name"] = S_SampleGame
    /\ games[1]["meta_path"] = UnitPath(S_sample)
    /\ UnitPath(<<"a">>) \in DOMAIN fs

\* the k-th name quick-add tries for a base id: base, base_1, base_2, ...
Candidate(base_id, k) ==
    UnitPath(IF k = 0 THEN base_id ELSE base_id \o <<"_">> \o IntStr(k))

QuickAdded == pc = "loop" /\ Len(games') = Len(games) + 1

\* C9: quick-add writes the new record to a unit that did not exist before,
\* the first free of base, base_1, base_2, ..., and leaves the content of
\* every existing file as it was.
C9_QuickAddNeverOverwrites ==
    [][QuickAdded =>
         LET new     == games'[Len(games')]
             base_id == ReplaceSpaces(Lower(new["name"]))
         IN  /\ new["meta_path"] \notin DOMAIN fs
             /\ new["meta_path"] \in DOMAIN fs'
             /\ \A p \in DOMAIN fs : fs'[p] = fs[p]
             /\ \E k \in 0..Cardinality(DOMAIN fs) :
                   /\ new["meta_path"] = Candidate(base_id, k)
                   /\ \A m \in 0..(k - 1) : Candidate(base_id, m) \in DOMAIN fs
      ]_vars

\* a quick-add whose base name and first suffixed name were both taken
C9_Witness ==
    /\ pc = "loop" /\ adds > 0
    /\ games[Len(games)]["meta_path"] = UnitPath(<<"a", "_", "2">>)

-----------------------------------------------------------------------------
(* RoundTripSpec: save_games on one record, then load_games *)

\* save_games: _write_game_file on every record of the list
RECURSIVE save_games(_, _, _)
save_games(files, folders, gs) ==
    IF gs = <<>> THEN [games |-> <<>>, files |-> files, folders |-> folders]
    ELSE Eager1(LAMBDA w :
                  Eager1(LAMBDA rest : [games   |-> <<w.game>> \o rest.games,
                                        files   |-> rest.files,
                                        folders |-> rest.folders],
                         save_games(w.files, w.folders, Tail(gs))),
                _write_game_file(files, folders, Head(gs)))

Opt(k, values) == {EmptyDict} \cup { [x \in {k} |-> v] : v \in values }

\* d1 and d2 have disjoint keys
Merge(d1, d2) ==
    [x \in DOMAIN d1 \cup DOMAIN d2 |-> IF x \in DOMAIN d1 THEN d1[x] ELSE d2[x]]

\* records with every field present, empty or absent
RoundTripRecords ==
    { Merge(Merge(Merge(i, n), Merge(w, g)), Merge(m, u)) :
        i \in Opt("id", {<<>>, <<"a">>, <<"A", " ", "b">>, <<"a", "/", "b">>}),
        n \in Opt("name", {<<>>, <<"B">>}),
        w \in Opt("work_dir", {<<>>, S_x}),
        g \in Opt("game_path", {S_Aexe}),
        m \in Opt("meta_path", {UnitPath(<<"b">>)}),
        u \in Opt("update", {[url |-> "", dest |-> <<>>, extract_to |-> <<>>]}) }

RoundTripInit ==
    /\ pc = "roundtrip"
    /\ games \in { <<r>> : r \in RoundTripRecords }
    /\ fs \in { EmptyFs, [p \in {UnitPath(<<"a">>)} |-> RecB] }
    /\ dirs = {<<"/">>}
    /\ ExtractIdle
    /\ selected = 0 /\ status = Msg("", 0) /\ prog = <<0, 1>>
    /\ news = [msg |-> "", job |-> 0]
    /\ afterq = <<>> /\ jobs = <<>> /\ mbox = "" /\ adds = 0
    /\ LaunchIdle

SaveGames ==
    /\ pc = "roundtrip"
    /\ \E r \in { save_games(fs, dirs, games) } :
          /\ games' = r.games /\ fs' = r.files /\ dirs' = r.folders
    /\ pc' = "saved"
    /\ UNCHANGED <<written, zf, zi, base, raised, selected, status, prog, news,
                   afterq, jobs, mbox, adds, osname, spawned>>

Reload ==
    /\ pc = "saved"
    /\ \E r \in { load_games(fs, dirs) } :
          /\ games' = r.games /\ fs' = r.files /\ dirs' = r.folders
    /\ pc' = "reloaded"
    /\ UNCHANGED <<written, zf, zi, base, raised, selected, status, prog, news,
                   afterq, jobs, mbox, adds, osname, spawned>>

RoundTripNext == SaveGames \/ Reload

RoundTripSpec == RoundTripInit /\ [][RoundTripNext]_vars

\* the reloaded list holds a record read from r's unit that equals r on every
\* field but meta_path
ComesBack(r, loaded) ==
    \E i \in 1..Len(loaded) :
        /\ loaded[i]["meta_path"] = r["meta_path"]
        /\ DictWithout(loaded[i], "meta_path") = DictWithout(r, "meta_path")

\* C8 as stated: save(r) followed by load returns a record equal to r on every
\* field except meta_path, for every record r, whatever fields are empty or
\* absent.
C8_RoundTripEveryRecord ==
    [][(pc = "saved" /\ pc' = "reloaded") => ComesBack(games[1], games')]_vars

\* C8 amended: save(r) followed by load returns a record equal to r on every
\* field except meta_path, for every record r that has an id, a name and a
\* non-empty work_dir and whose unit is a .json file directly inside the
\* catalog directory.
C8_RoundTripCompleteRecord ==
    [][(/\ pc = "saved" /\ pc' = "reloaded"
        /\ Has(games[1], "id") /\ Has(games[1], "name")
        /\ ~Falsy(games[1], "work_dir")
        /\ games[1]["meta_path"] \in Glob(fs))
       => ComesBack(games[1], games')]_vars

\* a complete record, saved under a name derived from its id, came back
C8_Witness ==
    /\ pc = "reloaded"
    /\ \E i \in 1..Len(games) :
          /\ games[i]["meta_path"] = UnitPath(<<"a", "_", "b">>)
          /\ games[i]["id"] = <<"A", " ", "b">>
          /\ games[i]["work_dir"] = S_x
          /\ Has(games[i], "update")

-----------------------------------------------------------------------------
(* LaunchSpec: launch_game on every small target, work_dir, args and platform *)

LaunchTargets ==
    { <<"s", "t", "e", "a", "m", ":", "/", "/", "r", ".", "l", "n", "k">>,
      <<"h", "t", "t", "p", "s", ":", "/", "/", "a">>,
      <<"h", "t", "t", "p", ":", "/", "/", "a", ".", "b", "a", "t">>,
      <<"e", "p", "i", "c", ":", "/", "/", "a">>,
      <<"H", "T", "T", "P", ":", "/", "/", "a">>,
      <<"/", "x", "/", "A", ".", "l", "n", "k">>,
      <<"/", "x", "/", "A", ".", "L", "N", "K">>,
      <<"/", "x", "/", "a", ".", "b", "a", "t">>,
      <<"/", "x", "/", "a", ".", "c", "m", "d">>,
      <<"/", "x", "/", "a", ".", "u", "r", "l">>,
      <<"/", "x", "/", ".", "b", "a", "t">>,
      S_Aexe,
      <<"A", ".", "e", "x", "e">> }

LaunchRecords ==
    { Merge(Merge([game_path |-> t], w), a) :
        t \in LaunchTargets,
        w \in Opt("work_dir", {<<>>, S_x}),
        a \in Opt("args", {<<>>, <<"--fast">>, <<"-a", "-b">>}) }

LaunchInit ==
    /\ pc = "launch"
    /\ games \in { <<r>> : r \in LaunchRecords }
    /\ osname \in {"nt", "posix"}
    /\ spawned = NoLaunch
    /\ fs = EmptyFs /\ dirs = {<<"/">>}
    /\ ExtractIdle
    /\ selected = 0 /\ status = Msg("", 0) /\ prog = <<0, 1>>
    /\ news = [msg |-> "", job |-> 0]
    /\ afterq = <<>> /\ jobs = <<>> /\ mbox = "" /\ adds = 0

\* ok, msg = launch_game(exe, g.get("work_dir"), g.get("args")) and the
\* status play shows for it
Launch(outcome) ==
    /\ pc = "launch"
    /\ \E r \in { launch_game(osname, games[1]["game_path"], Get(games[1], "work_dir"),
                                Get(games[1], "args"), outcome) } :
          /\ outcome \in Outcomes(r.call.kind)
          /\ spawned' = r.call
          /\ status' = LaunchStatus(r)
    /\ pc' = "launched"
    /\ UNCHANGED <<fs, dirs, written, zf, zi, base, raised, games, selected,
                   prog, news, afterq, jobs, mbox, adds, osname>>

LaunchNext ==
    \/ \E outcome \in {"ok", "false", "raise"} : Launch(outcome)
    \/ ChildExit

LaunchSpec == LaunchInit /\ [][LaunchNext]_vars

\* Path's notion of an extension, compared without regard to case
HasShortcutExtension(t) == Lower(PathSuffix(t)) \in ShortcutSuffixes

\* args as a list: None and [] are no arguments
ArgsGiven(g) == IF Falsy(g, "args") THEN <<>> ELSE g["args"]

\* C12: launch_game selects exactly one of three mechanisms, in priority
\* order: a target starting with http://, https://, steam:// or epic:// is
\* handed to the protocol handler and its args are ignored, whatever its
\* extension; otherwise a target with a shortcut or batch extension and no
\* args is opened by the shell on Windows; every other input is spawned
\* directly, with args in order and cwd = work_dir or the target's parent.
C12_LaunchClassification ==
    pc = "launched" =>
      LET g == games[1]
          t == g["game_path"]
      IN  /\ spawned.kind \in {"protocol", "shell", "direct"}
          /\ IF StartsWithAny(t, Schemes)
             THEN /\ spawned.kind = "protocol" /\ spawned.target = t
                  /\ spawned.cmd = <<>>
             ELSE IF osname = "nt" /\ HasShortcutExtension(t) /\ ArgsGiven(g) = <<>>
             THEN spawned.kind = "shell" /\ spawned.target = PathStr(t)
             ELSE /\ spawned.kind = "direct"
                  /\ spawned.cmd = << PathStr(t) >> \o ArgsGiven(g)
                  /\ spawned.cwd = (IF Falsy(g, "work_dir") THEN ParentStr(t)
                                    ELSE g["work_dir"])

\* on Windows, a shortcut with two arguments was spawned directly in its
\* work_dir
C12_Witness ==
    /\ pc = "launched" /\ osname = "nt"
    /\ spawned.kind = "direct" /\ Len(spawned.cmd) = 3 /\ spawned.cwd = S_x
    /\ games[1]["game_path"] = <<"/", "x", "/", "A", ".", "l", "n", "k">>

Succeeded == status.msg \in { "OK - Opened URL/protocol", "OK - Launched via Shell",
                              "OK - Launched" }

\* C14: launch_game never raises: a failure of the handler hand-off, of the
\* shell open or of the spawn comes back as (False, message), success comes
\* back exactly when the mechanism was invoked without failure, and
\* launch_game returns while the child it spawned is still running.
C14_LaunchFailuresReported ==
    [][(pc = "launch" /\ pc' = "launched") =>
         /\ Succeeded' <=> spawned'.outcome = "ok"
         /\ ~Succeeded' => status'.msg = "FAIL - error"
         /\ (spawned'.kind = "direct" /\ Succeeded') => spawned'.child = "running"
      ]_vars

-----------------------------------------------------------------------------
(* Networking: what the server can answer to _HTTP.get *)

ZipOk   == << [filename |-> <<"a", "/", "b">>, data |-> << <<"zip", 1>> >>] >>
ZipSlip == << [filename |-> <<"a", "/", "b">>, data |-> << <<"zip", 1>> >>],
              [filename |-> <<".", ".", "/", ".", ".", "/", "e">>,
               data |-> << <<"zip", 2>> >>] >>

\* status 0: the request itself raises (timeout, DNS, refused); status 300: a
\* redirection without a Location header, which requests hands back as it is;
\* total: int(Content-Length or 0); chunks: the sizes iter_content yields,
\* -1 where the stream raises; zip: the body is a zip archive of these entries
Responses ==
    << [status |-> 0,   total |-> 0, chunks |-> <<>>,        isZip |-> FALSE, zip |-> <<>>],
       [status |-> 404, total |-> 0, chunks |-> <<>>,        isZip |-> FALSE, zip |-> <<>>],
       [status |-> 200, total |-> 2, chunks |-> <<1, 1>>,    isZip |-> FALSE, zip |-> <<>>],
       [status |-> 200, total |-> 0, chunks |-> <<2>>,       isZip |-> FALSE, zip |-> <<>>],
       [status |-> 200, total |-> 2, chunks |-> <<1, 2>>,    isZip |-> FALSE, zip |-> <<>>],
       [status |-> 200, total |-> 3, chunks |-> <<1, 0, 1>>, isZip |-> FALSE, zip |-> <<>>],
       [status |-> 200, total |-> 2, chunks |-> <<1, -1>>,   isZip |-> FALSE, zip |-> <<>>],
       [status |-> 200, total |-> 1, chunks |-> <<1>>,       isZip |-> TRUE,  zip |-> ZipOk],
       [status |-> 200, total |-> 1, chunks |-> <<1>>,       isZip |-> TRUE,  zip |-> ZipSlip],
       [status |-> 300, total |-> 0, chunks |-> <<>>,        isZip |-> FALSE, zip |-> <<>>] >>

\* _HTTP.get returned and r.raise_for_status() passes: raise_for_status
\* raises for the statuses 400..599
StatusOk(r) ==
    /\ Responses[r].status # 0
    /\ ~(Responses[r].status >= 400 /\ Responses[r].status < 600)

\* the bytes of chunk number c of response r, given how many came before
ChunkBytes(r, before, size) == [i \in 1..size |-> <<"body", r * 10 + before + i>>]

RECURSIVE SumTo(_, _)
SumTo(sizes, k) ==
    IF k = 0 THEN 0 ELSE SumTo(sizes, k - 1) + (IF sizes[k] > 0 THEN sizes[k] ELSE 0)

\* the whole body of response r
Body(r) == ChunkBytes(r, 0, SumTo(Responses[r].chunks, Len(Responses[r].chunks)))

\* the bytes of a file (a file written as text is read as no bytes here)
BytesOf(files, path) ==
    IF path \in DOMAIN files /\ files[path].kind = "bytes" THEN files[path].data ELSE <<>>

\* f.write(chunk) at the writer's own offset
WriteAt(data, off, chunk) ==
    LET n == IF Len(data) > off + Len(chunk) THEN Len(data) ELSE off + Len(chunk)
    IN  [i \in 1..n |->
            IF i > off /\ i <= off + Len(chunk) THEN chunk[i - off]
            ELSE IF i <= Len(data) THEN data[i]
            ELSE <<"zero", 0>>]

PutFile(files, path, content) ==
    [p \in DOMAIN files \cup {path} |-> IF p = path THEN content ELSE files[p]]

\* zipfile.ZipFile(dest): the entries, when the file holds a whole zip body
ZipBodies(files, path) ==
    { r \in 1..Len(Responses) :
        Responses[r].isZip /\ BytesOf(files, path) = Body(r) }

\* Path(extract_to).resolve() as parts
ResolveStr(s) ==
    Resolve(IF IsAbsolute(s) THEN PathParts(s) ELSE PathParts(Cwd) \o PathParts(s))

-----------------------------------------------------------------------------
(* Events a worker hands to the owner with self.after(0, ...) *)

Event(cb, kind, j, m, num, den) ==
    [cb |-> cb, kind |-> kind, job |-> j, msg |-> m, num |-> num, den |-> den]

\* the except clause of a job (src/launcher.py:374-375, 400-401): the failure
\* becomes one completion callback
FailureCalls_Escapes(j, m) == <<>>

FailureCalls(j, m) == << Event("set_status", "done", j, m, 0, 1) >>

\* a worker's step ends with self.after(0, ...) for each callback it issued:
\* the callbacks are queued for the owner's loop, the owner's state is not
\* touched
Deliver_Direct(j, nj, calls) ==
    /\ jobs' = [jobs EXCEPT ![j] = [nj EXCEPT !.events = @ \o calls]]
    /\ afterq' = afterq
    /\ status' = IF calls # <<>> /\ calls[Len(calls)].cb = "set_status"
                 THEN Msg(calls[Len(calls)].msg, j) ELSE status
    /\ prog' = IF calls # <<>> /\ calls[Len(calls)].cb = "prog.set"
               THEN <<calls[Len(calls)].num, calls[Len(calls)].den>> ELSE prog
    /\ news' = IF calls # <<>> /\ calls[Len(calls)].cb = "_news_loaded"
               THEN [msg |-> calls[Len(calls)].msg, job |-> j] ELSE news
    /\ UNCHANGED <<games, selected, mbox>>

\* callbacks that overtake the ones already queued
Deliver_Prepend(j, nj, calls) ==
    /\ jobs' = [jobs EXCEPT ![j] = [nj EXCEPT !.events = @ \o calls]]
    /\ afterq' = calls \o afterq
    /\ UNCHANGED <<games, selected, status, prog, news, mbox>>

Deliver(j, nj, calls) ==
    /\ jobs' = [jobs EXCEPT ![j] = [nj EXCEPT !.events = @ \o calls]]
    /\ afterq' = afterq \o calls
    /\ UNCHANGED <<games, selected, status, prog, news, mbox>>

-----------------------------------------------------------------------------
(* Launcher.load_news.job and Launcher.download.job: the workers' steps *)

IsJob(j, type, at) ==
    /\ pc = "loop" /\ j \in 1..Len(jobs)
    /\ jobs[j].type = type /\ jobs[j].pc = at

\* Launcher.load_news.job: fetch_news succeeds or raises
NewsFetched(j) ==
    /\ IsJob(j, "news", "run")
    /\ Deliver(j, [jobs[j] EXCEPT !.pc = "done"],
               << Event("_news_loaded", "done", j, jobs[j].url, 0, 1) >>)
    /\ UNCHANGED <<fs, dirs, written, zf, zi, base, raised, pc, adds, osname, spawned>>

NewsFailed(j) ==
    /\ IsJob(j, "news", "run")
    /\ Deliver(j, [jobs[j] EXCEPT !.pc = "done"],
               FailureCalls(j, "News fetch failed"))
    /\ UNCHANGED <<fs, dirs, written, zf, zi, base, raised, pc, adds, osname, spawned>>

\* download_update up to open(dest, "wb"): the request, raise_for_status,
\* the parent directories and the (truncating) open
DownloadGet(j, r) ==
    /\ IsJob(j, "download", "get")
    /\ IF ~StatusOk(r)
       THEN /\ Deliver(j, [jobs[j] EXCEPT !.pc = "done", !.resp = r],
                       FailureCalls(j, "Download failed"))
            /\ UNCHANGED <<fs, dirs>>
       ELSE \E made \in { MkdirParents(dirs, ParentStr(jobs[j].dest)) } :
              /\ dirs' = made
              /\ IF jobs[j].dest \in made
                 THEN /\ Deliver(j, [jobs[j] EXCEPT !.pc = "done", !.resp = r],
                                 FailureCalls(j, "Download failed"))
                      /\ UNCHANGED fs
                 ELSE /\ Deliver(j, [jobs[j] EXCEPT !.pc = "chunks", !.resp = r], <<>>)
                      /\ fs' = PutFile(fs, jobs[j].dest, [kind |-> "bytes", data |-> <<>>])
    /\ UNCHANGED <<written, zf, zi, base, raised, pc, adds, osname, spawned>>

\* one iteration of the loop over r.iter_content
DownloadChunk(j) ==
    /\ IsJob(j, "download", "chunks")
    /\ jobs[j].ci < Len(Responses[jobs[j].resp].chunks)
    /\ LET job  == jobs[j]
           R    == Responses[job.resp]
           size == R.chunks[job.ci + 1]
           dest == job.dest
           done == job.downloaded + size
       IN  IF size < 0
           THEN /\ Deliver(j, [job EXCEPT !.pc = "done"],
                           FailureCalls(j, "Download failed"))
                /\ UNCHANGED fs
           ELSE IF size = 0
           THEN /\ Deliver(j, [job EXCEPT !.ci = @ + 1], <<>>)
                /\ UNCHANGED fs
           ELSE /\ fs' = PutFile(fs, dest,
                           [kind |-> "bytes",
                            data |-> WriteAt(BytesOf(fs, dest), job.downloaded,
                                             ChunkBytes(job.resp, job.downloaded, size))])
                /\ Deliver(j, [job EXCEPT !.ci = @ + 1, !.downloaded = done],
                           IF R.total # 0
                           THEN << Event("prog.set", "progress", j, "", done, R.total) >>
                           ELSE <<>>)
    /\ UNCHANGED <<dirs, written, zf, zi, base, raised, pc, adds, osname, spawned>>

\* the end of the stream: the file is closed; a .zip with an extract_to goes
\* on to extraction, anything else is finished
DownloadEnd(j) ==
    /\ IsJob(j, "download", "chunks")
    /\ jobs[j].ci = Len(Responses[jobs[j].resp].chunks)
    /\ IF EndsWith(Lower(jobs[j].dest), <<".", "z", "i", "p">>)
          /\ jobs[j].extract_to # <<>>
       THEN Deliver(j, [jobs[j] EXCEPT !.pc = "extract"],
                    << Event("set_status", "status", j, "Extracting", 0, 1) >>)
       ELSE Deliver(j, [jobs[j] EXCEPT !.pc = "done"],
                    << Event("set_status", "done", j, "Saved to", 0, 1) >>)
    /\ UNCHANGED <<fs, dirs, written, zf, zi, base, raised, pc, adds, osname, spawned>>

\* with zipfile.ZipFile(dest) as zf: _safe_extract_zip(zf, Path(extract_to)):
\* the file system afterwards and what was raised
ExtractArchive(st, dest, extract_to) ==
    Eager1(LAMBDA zips :
             IF zips = {} THEN [st EXCEPT !.raised = "BadZipFile"]
             ELSE _safe_extract_zip(st, ResolveStr(extract_to),
                                    Responses[CHOOSE r \in zips : TRUE].zip),
           ZipBodies(st.fs, dest))

\* the extraction, then the job's last callback
DownloadExtract(j) ==
    /\ IsJob(j, "download", "extract")
    /\ \E out \in { Eager3(ExtractArchive,
                           [fs |-> fs, dirs |-> dirs, written |-> written,
                            raised |-> ""],
                           jobs[j].dest, jobs[j].extract_to) } :
          /\ fs' = out.fs /\ dirs' = out.dirs /\ written' = out.written
          /\ Deliver(j, [jobs[j] EXCEPT !.pc = "done"],
                     IF out.raised # ""
                     THEN FailureCalls(j, "Download failed")
                     ELSE << Event("set_status", "done", j, "Saved to", 0, 1) >>)
    /\ UNCHANGED <<zf, zi, base, raised, pc, adds, osname, spawned>>

-----------------------------------------------------------------------------
(* The owner's loop: button handlers and queued callbacks *)

\* a handler may run when it starts no thread, or when the thread it starts
\* fits the bound of the model
JobsFit(u) == Len(u.jobs) = Len(jobs) \/ Len(u.jobs) <= MaxJobs

\* a click on the idx-th button of the list
OnSelect(idx) ==
    /\ pc = "loop" /\ idx \in 0..(Len(games) - 1)
    /\ \E u \in { on_select(Handler, idx) } : JobsFit(u) /\ SetOwner(u)
    /\ UNCHANGED <<fs, dirs, written, zf, zi, base, raised, pc, afterq, adds, osname, spawned>>

\* the "Update" button
Download ==
    /\ pc = "loop"
    /\ \E u \in { download(Handler) } : JobsFit(u) /\ SetOwner(u)
    /\ UNCHANGED <<fs, dirs, written, zf, zi, base, raised, pc, afterq, adds, osname, spawned>>

\* a download of the selected record is still running
UpdateRunning ==
    \E j \in 1..Len(jobs) :
        jobs[j].type = "download" /\ jobs[j].game = selected /\ jobs[j].pc # "done"

\* the "Update" button again, while a download of the selected record is
\* still running: nothing in download looks at the running jobs
DownloadWhileRunning ==
    /\ pc = "loop" /\ UpdateRunning /\ Len(jobs) <= MaxJobs
    /\ SetOwner(download(Handler))
    /\ UNCHANGED <<fs, dirs, written, zf, zi, base, raised, pc, afterq, adds,
                   osname, spawned>>

\* the owner's loop runs the oldest callback queued with self.after(0, ...):
\* _news_loaded, set_status or prog.set
OwnerApply ==
    /\ pc = "loop" /\ afterq # <<>>
    /\ LET e == Head(afterq)
       IN  /\ news' = IF e.cb = "_news_loaded" THEN [msg |-> e.msg, job |-> e.job]
                      ELSE news
           /\ status' = IF e.cb = "_news_loaded" THEN Msg("News loaded.", e.job)
                        ELSE IF e.cb = "set_status" THEN Msg(e.msg, e.job)
                        ELSE status
           /\ prog' = IF e.cb = "prog.set" THEN <<e.num, e.den>> ELSE prog
    /\ afterq' = Tail(afterq)
    /\ UNCHANGED <<fs, dirs, written, zf, zi, base, raised, pc, games, selected,
                   jobs, mbox, adds, osname, spawned>>

-----------------------------------------------------------------------------
(* Spec: the whole program on a few catalog directories *)

\* a.json with a news_url and b.json without, and the other way round; the
\* executable that record A and the file dialog name is there
ProgramDirs ==
    { [p \in {UnitPath(<<"a">>), UnitPath(<<"b">>), S_Aexe} |->
          IF p = UnitPath(<<"a">>) THEN pair[1]
          ELSE IF p = UnitPath(<<"b">>) THEN pair[2]
          ELSE [kind |-> "bytes", data |-> <<>>]] :
      pair \in { <<RecA, RecV>>, <<RecU, RecB>> } }

Init ==
    /\ pc = "start"
    /\ fs \in ProgramDirs
    /\ dirs = {<<"/">>, S_x}
    /\ ExtractIdle
    /\ ProgramIdle

ProgramAddPaths == {S_Aexe}

\* Launcher.__init__ starts up to two threads, the loop up to MaxJobs
JobIds == 1..(MaxJobs + 1)

\* the next step of worker thread j, the server answering with one of rs
JobStepOn(j, rs) ==
    \/ NewsFetched(j)
    \/ NewsFailed(j)
    \/ \E r \in rs : DownloadGet(j, r)
    \/ DownloadChunk(j)
    \/ DownloadEnd(j)
    \/ DownloadExtract(j)

JobStep(j) == JobStepOn(j, 1..Len(Responses))

WorkerNext == \E j \in JobIds : JobStep(j)

Next ==
    \/ LoadGames
    \/ LauncherInit
    \/ \E idx \in 0..(MaxAdds + 1) : OnSelect(idx)
    \/ \E path \in ProgramAddPaths : QuickAdd(path)
    \/ QuickAddCancelled
    \/ \E outcome \in {"ok", "false", "raise"} : Play(outcome)
    \/ ChildExit
    \/ Download
    \/ OwnerApply
    \/ WorkerNext

Spec == Init /\ [][Next]_vars

\* OwnerSpec: every handler of the owner, with the workers and a server that
\* answers 404 or with an archive
OwnerResponses == {2, 8}

OwnerNext ==
    \/ LoadGames
    \/ LauncherInit
    \/ \E idx \in 0..(MaxAdds + 1) : OnSelect(idx)
    \/ \E path \in ProgramAddPaths : QuickAdd(path)
    \/ QuickAddCancelled
    \/ \E outcome \in {"ok", "false", "raise"} : Play(outcome)
    \/ ChildExit
    \/ Download
    \/ OwnerApply
    \/ \E j \in JobIds : JobStepOn(j, OwnerResponses)

OwnerSpec == Init /\ [][OwnerNext]_vars

\* WorkerSpec: the handlers that start worker threads, the workers with every
\* answer of the server, and the owner's loop
WorkerSpecNext ==
    \/ LoadGames
    \/ LauncherInit
    \/ \E idx \in 0..1 : OnSelect(idx)
    \/ Download
    \/ OwnerApply
    \/ WorkerNext

WorkerSpec == Init /\ [][WorkerSpecNext]_vars

\* LiveSpec: the handlers that start worker threads, the workers and the
\* owner's loop, with one answer of the server for each way a job can end:
\* the request raises, 404, a body that is no archive, a stream that breaks,
\* an archive, an archive with an unsafe entry
LiveResponses == {1, 2, 3, 7, 8, 9}

LiveJobStep(j) == JobStepOn(j, LiveResponses)

LiveNext ==
    \/ LoadGames
    \/ LauncherInit
    \/ \E idx \in 0..1 : OnSelect(idx)
    \/ Download
    \/ OwnerApply
    \/ \E j \in JobIds : LiveJobStep(j)

\* every worker thread is scheduled and its network calls time out, so a
\* thread that can take a step takes one
LiveSpec == Init /\ [][LiveNext]_vars /\ \A j \in JobIds : WF_vars(LiveJobStep(j))

\* RaceSpec: two updates of the same record, the second started while the
\* first is running; the server answers with the two chunks of one body or
\* with the single chunk of another
RaceResponses == {3, 4}

RaceNext ==
    \/ LoadGames
    \/ LauncherInit
    \/ Download
    \/ DownloadWhileRunning
    \/ OwnerApply
    \/ \E j \in JobIds : JobStepOn(j, RaceResponses)

RaceSpec == Init /\ [][RaceNext]_vars

-----------------------------------------------------------------------------
(* Claims about the owner and the workers *)

\* C3: a bulletin fetched for one record is never displayed while another
\* record is selected: the owner ignores the stale completion.
C3_StaleBulletinIgnored ==
    [][(news' # news /\ news'.job # 0) => jobs[news'.job].game = selected']_vars

IsDone(e)     == e.kind = "done"
IsProgress(e) == e.kind = "progress"

Completions(j) == Len(SelectSeq(jobs[j].events, IsDone))

\* C4: every started job hands the owner exactly one completion callback, on
\* success and on every failure of fetch, download or extraction, and every
\* job gets there.
C4_EveryJobCompletesOnce ==
    /\ [](\A j \in 1..Len(jobs) :
             /\ Completions(j) <= 1
             /\ (jobs[j].pc = "done") <=> (Completions(j) = 1)
             /\ Completions(j) = 1 => IsDone(jobs[j].events[Len(jobs[j].events)]))
    /\ \A j \in JobIds :
          (j <= Len(jobs)) ~> (j <= Len(jobs) /\ jobs[j].pc = "done")

\* a download whose extraction raised has reported its failure
C4_Witness ==
    \E j \in 1..Len(jobs) :
        /\ jobs[j].type = "download" /\ jobs[j].pc = "done" /\ jobs[j].resp = 9
        /\ jobs[j].events[Len(jobs[j].events)].msg = "Download failed"
        /\ written # {}

WorkerStepped(j) == j <= Len(jobs) /\ jobs'[j] # jobs[j]

\* C5: a worker's step leaves the owner's state alone; what it reports is
\* appended to the queue of the owner's loop.
C5_WorkersOnlyEnqueue ==
    [][\A j \in JobIds :
          WorkerStepped(j) =>
            /\ UNCHANGED <<games, selected, status, prog, news, mbox>>
            /\ afterq' = afterq \o SubSeq(jobs'[j].events, Len(jobs[j].events) + 1,
                                          Len(jobs'[j].events))
      ]_vars

\* a progress callback of a worker waits in the owner's queue
C5_Witness ==
    \E i \in 1..Len(afterq) : afterq[i].cb = "prog.set" /\ prog = <<0, 1>>

\* the number of non-empty chunks among the first k
RECURSIVE NonEmptyChunks(_, _)
NonEmptyChunks(sizes, k) ==
    IF k = 0 THEN 0 ELSE NonEmptyChunks(sizes, k - 1) + (IF sizes[k] > 0 THEN 1 ELSE 0)

\* C10: with a declared total size, progress_cb is called after every
\* non-empty chunk, with non-decreasing values in [0,1] that end at 1.0 when
\* the stream ends, whatever the chunking and the number of bytes received;
\* without a declared size it is never called.
C10_ProgressWithinUnitInterval ==
    \A j \in 1..Len(jobs) :
        (jobs[j].type = "download" /\ jobs[j].resp # 0) =>
          LET R == Responses[jobs[j].resp]
              P == SelectSeq(jobs[j].events, IsProgress)
          IN  IF R.total = 0 THEN P = <<>>
              ELSE /\ Len(P) = NonEmptyChunks(R.chunks, jobs[j].ci)
                   /\ \A i \in 1..Len(P) : 0 <= P[i].num /\ P[i].num <= P[i].den
                   /\ \A i \in 1..(Len(P) - 1) :
                         P[i].num * P[i + 1].den <= P[i + 1].num * P[i].den
                   /\ (StatusOk(jobs[j].resp) /\ jobs[j].ci = Len(R.chunks) /\ P # <<>>)
                        => P[Len(P)].num = P[Len(P)].den

-----------------------------------------------------------------------------
(* UpdateSpec: the "Update" button on a record with every small update
   descriptor *)

UpdateBlocks ==
    { Merge(Merge(u, d), e) :
        u \in Opt("url", {"", "url-a"}),
        d \in Opt("dest", {<<>>, S_uzip, <<"/", "w", "/", "u", ".", "b", "i", "n">>}),
        e \in Opt("extract_to", {<<>>, <<"/", "d">>}) }

UpdateRecords ==
    { Merge([id |-> <<"a">>, name |-> <<"A">>, work_dir |-> S_x, news_url |-> ""], b) :
        b \in {EmptyDict} \cup { [update |-> blk] : blk \in UpdateBlocks } }

UpdateInit ==
    /\ pc = "start"
    /\ fs \in { [p \in {UnitPath(<<"a">>)} |-> [kind |-> "json", data |-> r]] :
                r \in UpdateRecords }
    /\ dirs = {<<"/">>}
    /\ ExtractIdle
    /\ ProgramIdle

UpdateNext ==
    \/ LoadGames
    \/ LauncherInit
    \/ Download

UpdateSpec == UpdateInit /\ [][UpdateNext]_vars

MissingText == "Update block missing 'url' or 'dest'."

\* the step of the "Update" button, the only handler of UpdateSpec
UpdateTriggered == pc = "loop" /\ pc' = "loop"

\* the step started a download job
DownloadStarted ==
    /\ Len(jobs') = Len(jobs) + 1
    /\ jobs'[Len(jobs')].type = "download"

\* the step started nothing and explained why in a message box
Explained == jobs' = jobs /\ mbox' = MissingText

\* C13 as stated: an update of a record with an empty url, dest or
\* extract_to starts no download job and shows an explanation; a job is
\* started only when all three are non-empty.
C13_AnyEmptyFieldDisablesUpdate ==
    [][UpdateTriggered =>
         LET g == games[selected + 1]
         IN  IF \/ UpdateFalsy(g, "url", "") \/ UpdateFalsy(g, "dest", <<>>)
                \/ UpdateFalsy(g, "extract_to", <<>>)
             THEN Explained
             ELSE DownloadStarted
      ]_vars

\* C13 amended: an update of a record with an empty url or an empty dest
\* starts no download job and shows an explanation; a job is started exactly
\* when url and dest are both non-empty, and it carries the record's url,
\* dest and extract_to.
C13_EmptyUrlOrDestDisablesUpdate ==
    [][UpdateTriggered =>
         LET g == games[selected + 1]
         IN  IF UpdateFalsy(g, "url", "") \/ UpdateFalsy(g, "dest", <<>>)
             THEN Explained
             ELSE /\ DownloadStarted
                  /\ jobs'[Len(jobs')].url = g["update"]["url"]
                  /\ jobs'[Len(jobs')].dest = g["update"]["dest"]
                  /\ mbox' = ""
      ]_vars

\* the explanation is shown for a record with a url and an empty dest
C13_Witness ==
    /\ pc = "loop" /\ mbox = MissingText /\ jobs = <<>>
    /\ Has(games[1], "update")
    /\ ~UpdateFalsy(games[1], "url", "")
    /\ Has(games[1]["update"], "dest") /\ games[1]["update"]["dest"] = <<>>

-----------------------------------------------------------------------------
(* Claims about the update pipeline *)

Is2xx(r) == Responses[r].status >= 200 /\ Responses[r].status < 300

\* job j's request was answered in this step
Answered(j) ==
    /\ j <= Len(jobs) /\ jobs[j].type = "download"
    /\ jobs[j].pc = "get" /\ jobs'[j].pc # "get"
    /\ Responses[jobs'[j].resp].status # 0

\* C11: a download answered with a status that is not 2xx fails: the job ends
\* with its failure callback, dest and every other file and directory are
\* left as they were, and extraction is not attempted.
C11_Non2xxLeavesDestAlone ==
    [][\A j \in JobIds :
          (Answered(j) /\ ~Is2xx(jobs'[j].resp)) =>
            /\ fs' = fs /\ dirs' = dirs /\ written' = written
            /\ jobs'[j].pc = "done"
            /\ jobs'[j].events = FailureCalls(j, "Download failed")
      ]_vars

\* the job has made its last write to dest
FinishedWriting(job) ==
    \/ job.pc \in {"extract", "done"}
    \/ job.pc = "chunks" /\ job.ci = Len(Responses[job.resp].chunks)

\* jobs j and k are two updates of the same record
SameUpdate(j, k) ==
    /\ j # k /\ j <= Len(jobs) /\ k <= Len(jobs)
    /\ jobs[j].type = "download" /\ jobs[k].type = "download"
    /\ jobs[j].game = jobs[k].game /\ jobs[j].dest = jobs[k].dest

\* C16: two updates of the same record, the second triggered while the first
\* is running, are both started and both complete, each with its own
\* completion event, and dest ends up with the content written by the job
\* that finished writing last.
C16_LastWriterWins ==
    /\ [][(pc = "loop" /\ UpdateRunning /\ Len(jobs') # Len(jobs)) =>
            /\ DownloadStarted /\ jobs'[Len(jobs')].game = selected
            /\ SubSeq(jobs', 1, Len(jobs)) = jobs]_vars
    /\ [](\A j \in 1..Len(jobs) :
             (jobs[j].pc = "done") <=> (Completions(j) = 1))
    /\ [][\A j, k \in JobIds :
             (/\ SameUpdate(j, k)
              /\ jobs[j].pc = "chunks" /\ jobs'[j].downloaded > jobs[j].downloaded
              /\ FinishedWriting(jobs'[j])
              /\ FinishedWriting(jobs[k]))
             => BytesOf(fs', jobs[j].dest)
                  = ChunkBytes(jobs[j].resp, 0, jobs'[j].downloaded)]_vars

\* the callbacks of job j in a queue, in the queue's order
EventsOf(q, j) == SelectSeq(q, LAMBDA e : e.job = j)

IsSuffix(s, t) == Len(s) <= Len(t) /\ SubSeq(t, Len(t) - Len(s) + 1, Len(t)) = s

Rank(e) == IF e.kind = "progress" THEN 1 ELSE IF e.kind = "status" THEN 2 ELSE 3

\* progress events, then at most one status event, then at most one completion
InEmissionOrder(ev) ==
    \A i, k \in 1..Len(ev) :
        i < k => Rank(ev[i]) <= Rank(ev[k]) /\ (Rank(ev[i]) = 1 \/ Rank(ev[i]) < Rank(ev[k]))

IsExtracting(e) == e.kind = "status" /\ e.msg = "Extracting"

\* C17: within one update job, every progress event is emitted before the
\* "Extracting" status event, which is emitted before any extraction write,
\* and the completion event comes last; the owner applies the job's events in
\* that order, so that applying the completion event leaves the job's
\* completion message as the status, with no event of the job left to apply.
C17_EventsAppliedInOrder ==
    /\ [](\A j \in 1..Len(jobs) :
             jobs[j].type = "download" =>
               /\ InEmissionOrder(jobs[j].events)
               /\ IsSuffix(EventsOf(afterq, j), jobs[j].events))
    /\ [][written' # written =>
            \E j \in 1..Len(jobs) :
                /\ jobs[j].pc = "extract" /\ jobs'[j].pc = "done"
                /\ IsExtracting(jobs[j].events[Len(jobs[j].events)])]_vars
    /\ [][(/\ afterq # <<>> /\ afterq' = Tail(afterq)
           /\ Head(afterq).kind = "done" /\ jobs[Head(afterq).job].type = "download")
          => /\ status' = Msg(Head(afterq).msg, Head(afterq).job)
             /\ EventsOf(afterq', Head(afterq).job) = <<>>]_vars

\* a job that ran alone reported progress, "Extracting" and its completion,
\* and the owner has applied all three
C17_Witness ==
    /\ Len(jobs) = 1 /\ jobs[1].type = "download" /\ jobs[1].pc = "done"
    /\ Len(jobs[1].events) = 3 /\ IsExtracting(jobs[1].events[2])
    /\ afterq = <<>> /\ written # {}
    /\ status = Msg("Saved to", 1) /\ prog = <<1, 1>>

-----------------------------------------------------------------------------
(* Claims about the owner's catalog *)

\* C18: after load and any sequence of select, quick-add, play, fetch and
\* update operations, selected is an index of the catalog, every record has a
\* meta_path that names an existing file and differs from every other
\* record's, and the catalog never loses a record.
C18_SelectionAndUnitsValid ==
    /\ [](Loaded =>
            /\ 0 <= selected /\ selected < Len(games)
            /\ \A i \in 1..Len(games) :
                  /\ Has(games[i], "meta_path")
                  /\ games[i]["meta_path"] \in DOMAIN fs
            /\ \A i, k \in 1..Len(games) :
                  i # k => games[i]["meta_path"] # games[k]["meta_path"])
    /\ [][(Loaded /\ Loaded') =>
            /\ Len(games') >= Len(games)
            /\ SubSeq(games', 1, Len(games)) = games]_vars

\* a record was quick-added and is selected, it was launched, and an update
\* has completed
C18_Witness ==
    /\ pc = "loop" /\ Len(games) = 3 /\ selected = 2
    /\ spawned.kind = "direct" /\ spawned.outcome = "ok"
    /\ \E j \in 1..Len(jobs) : jobs[j].type = "download" /\ jobs[j].pc = "done"

====
